---- MODULE Spec2Model ----
(***************************************************************************)
(* MineCtrl control plane: the server registry (ServersService over the    *)
(* Prisma server table), the process supervisor (AgentsService) and the    *)
(* console gateway (ServersGateway).                                        *)
(*                                                                         *)
(* Every HTTP / WebSocket handler is an async function.  An invocation is  *)
(* a record in the bag req whose pc advances by one action per await, so   *)
(* handlers interleave exactly where the event loop lets them.  Code that  *)
(* runs between two awaits is one action.                                   *)
(***************************************************************************)
EXTENDS Integers, Sequences, FiniteSets, Bags, TLC

(* ------------------------------ bounds -------------------------------- *)
\* record ids the table may hand out
MaxServers == 3
\* handler invocations in flight at once
MaxReqs == 2
\* handler invocations accepted in one run
MaxOps == 2
\* child processes spawned in one run
MaxChildren == 2
\* console clients
MaxClients == 1
\* sockets connected to the modpacks namespace
MaxSockets == 2
\* log lines produced in one run
MaxLines == 3
\* updateStatus calls awaiting Prisma, per server
MaxPending == 2
\* commands typed in one run
MaxCmds == 1
\* callbacks registered per server and topic
MaxCallbacks == 2
\* entries of manifest.files
MaxMods == 2
\* provisioning sessions started in one run
MaxSessions == 1
MaxPathLen == 3
MaxFileNameLen == 2
MaxKeys == 2
MaxRun == 6
MaxManifestMods == 10
\* AgentsService.MAX_LOG_LINES is 1000; the ring is scaled down so that eviction happens
MAX_LOG_LINES == 2

(* -------------------------- program constants ------------------------- *)
DefaultPort == 25565
MinPort == 1024
MaxPort == 65535
batchSize == 5

ServerIds == 1..MaxServers
SessionIds == 1..MaxSessions
CacheKeys == 1..MaxKeys
ChildIds == 1..MaxChildren
Clients == 1..MaxClients
Sockets == 1..MaxSockets
Names == {"alpha", "beta"}
Ports == {DefaultPort, DefaultPort + 1}

VARIABLES
    db,                \* the Prisma server table: id -> record (or NoServer)
    nextId,            \* next fresh record id
    req,               \* bag of the handler invocations in flight
    resp,              \* the response sent by the step just taken (NoResp: none)
    ops,               \* handler invocations accepted so far
    processes,         \* AgentsService.processes: server id -> child (0: no entry)
    children,          \* the spawned child processes
    currentStatus,     \* AgentsService.currentStatus
    logs,              \* AgentsService.logs: the per-server ring
    seq,               \* log lines produced so far (a line's identity)
    logCallbacks,      \* AgentsService.logCallbacks: callbacks registered per server
    statusCallbacks,   \* AgentsService.statusCallbacks: callbacks registered per server
    serverSubscriptions, \* ServersGateway.serverSubscriptions
    pendingStatus,     \* updateStatus calls issued and not yet written by Prisma
    inbox,             \* what each console client was sent since it subscribed
    statusSent,        \* the last 'status' event each client was sent since it subscribed
    nextSession,       \* provisioning sessions handed out so far, plus one
    sessions,          \* ModpacksGateway.sessions: session id -> subscribed sockets
    gone,              \* sockets of the modpacks namespace that have disconnected
    emitted,           \* the events sent on the modpacks namespace, per session
    received,          \* the events each socket of the modpacks namespace was sent
    dirs,              \* servers whose storage directory the backend has created
    fileOp,            \* the file request handled last and the path it acted on
    modListCache,      \* CurseForgeService.modListCache: the state of each key's entry
    portScan,          \* one findAvailablePort call: its inputs and the port it returned
    modDl,             \* one downloadMods call: its counters and the downloads in flight
    cmds               \* commands handled so far

vars == <<db, nextId, req, resp, ops, processes, children, currentStatus, logs, seq,
          logCallbacks, statusCallbacks, serverSubscriptions, pendingStatus, inbox,
          statusSent, nextSession, sessions, gone, emitted, received, dirs, fileOp, modListCache, portScan, modDl, cmds>>

regVars == <<db, nextId>>
supVars == <<processes, children, currentStatus, logs, seq, logCallbacks,
             statusCallbacks, pendingStatus, cmds>>
gwVars == <<serverSubscriptions, inbox, statusSent>>
mpVars == <<nextSession, sessions, gone, emitted, received>>
fsVars == <<dirs, fileOp>>
catVars == <<modListCache>>
calcVars == <<portScan, modDl>>

(* ------------------------------ records ------------------------------- *)
NoServer == [name |-> "", port |-> 0, status |-> "ABSENT", containerId |-> FALSE,
             storagePath |-> ""]

NoReq == [op |-> "none", pc |-> "none", id |-> 0, name |-> "", port |-> 0,
          checkName |-> FALSE, checkPort |-> FALSE, availablePort |-> 0, child |-> 0,
          session |-> 0, mods |-> 0, downloadedMods |-> 0]

NoResp == [op |-> "none", id |-> 0, name |-> "", port |-> 0, result |-> ""]

NoChild == [server |-> 0, state |-> "none", ready |-> FALSE, killed |-> FALSE,
            stopWritten |-> FALSE, termSent |-> FALSE, cmdWritten |-> FALSE, code |-> "none"]

NoFileOp == [op |-> "none", server |-> 0, path |-> <<>>, result |-> "", target |-> <<>>]

NoScan == [requestedPort |-> 0, occupiedPorts |-> {}, port |-> 0]

NoMods == [totalMods |-> 0, started |-> 0, fetching |-> 0, writing |-> 0,
           downloadedMods |-> 0, failedMods |-> 0, returned |-> "no"]

NoInbox == [subscribed |-> FALSE, ringAtSub |-> <<>>, backlog |-> <<>>, live |-> <<>>]

Existing == {i \in ServerIds : db[i] # NoServer}

InFlight == BagToSet(req)

\* A handler invocation is accepted.
Begin(op, pc, i, n, p) ==
    /\ BagCardinality(req) < MaxReqs
    /\ ops < MaxOps
    /\ ops' = ops + 1
    /\ req' = req (+) SetToBag({[NoReq EXCEPT !.op = op, !.pc = pc, !.id = i,
                                              !.name = n, !.port = p]})
    /\ resp' = NoResp

\* Invocation q resumes after its await as q2.
Resume(q, q2) ==
    /\ req' = (req (-) SetToBag({q})) (+) SetToBag({q2})
    /\ resp' = NoResp
    /\ ops' = ops

\* Invocation q resumes at pc after its await.
Goto(q, pc) == Resume(q, [q EXCEPT !.pc = pc])

\* Invocation q ends and answers res about record i.
Answer(q, i, res) ==
    /\ req' = req (-) SetToBag({q})
    /\ resp' = [op |-> q.op, id |-> i, name |-> q.name, port |-> q.port,
                result |-> res]
    /\ ops' = ops

Finish(q, res) == Answer(q, q.id, res)

At(q, op, pc) == q \in InFlight /\ q.op = op /\ q.pc = pc

(* ------------------------- the Prisma server table -------------------- *)
\* prisma.server.findUnique({ where: { name } })
FindByName(n) == {i \in Existing : db[i].name = n}

\* prisma.server.findUnique({ where: { port } })
FindByPort(p) == {i \in Existing : db[i].port = p}

\* The table without its unique indexes.
NoUniqueIndex(n, p, self) == FALSE

\* The unique indexes on Server.name and Server.port (findUnique is only
\* generated for unique columns): a write that would leave two rows with one
\* name or one port is refused by the database.
UniqueViolation(n, p, self) ==
    \E i \in Existing \ {self} : db[i].name = n \/ db[i].port = p

\* prisma.server.create: a fresh row, status defaulting to STOPPED.
InsertServer(n, p, sp) ==
    [db EXCEPT ![nextId] = [name |-> n, port |-> p, status |-> "STOPPED",
                            containerId |-> FALSE, storagePath |-> sp]]

\* The storagePath values a request may carry.
StoragePaths == {"modpack-alpha"}

\* name.toLowerCase().replace(/[^a-z0-9]/g, '-'), on the names of Names, which
\* consist of lower-case letters only
Sanitised(name) == name

\* dto.storagePath || `modpack-${sanitised name}`; "" stands for an absent field
ModpackStoragePath(sp, name) == IF sp # "" THEN sp ELSE "modpack-" \o Sanitised(name)

\* Ids are never reused; a create is accepted only while an id is left for it.
RECURSIVE Copies(_)
Copies(S) ==
    IF S = {} THEN 0 ELSE LET q == CHOOSE x \in S : TRUE IN req[q] + Copies(S \ {q})

IdsReserved == Copies({q \in InFlight : q.op \in {"create", "provision"} /\ q.id = 0})

(* --------------------------- ServersService.create -------------------- *)
CreateBegin ==
    /\ nextId + IdsReserved <= MaxServers
    /\ \E n \in Names, p \in Ports : Begin("create", "checkName", 0, n, p)
    /\ UNCHANGED <<regVars, supVars, gwVars>>
    /\ UNCHANGED <<mpVars, fsVars, catVars, calcVars>>

CreateCheckName(q) ==
    /\ At(q, "create", "checkName")
    /\ IF FindByName(q.name) # {}
       THEN Finish(q, "ConflictName")
       ELSE Goto(q, "checkPort")
    /\ UNCHANGED <<regVars, supVars, gwVars>>
    /\ UNCHANGED <<mpVars, fsVars, catVars, calcVars>>

CreateCheckPort(q) ==
    /\ At(q, "create", "checkPort")
    /\ IF FindByPort(q.port) # {}
       THEN Finish(q, "ConflictPort")
       ELSE Goto(q, "insert")
    /\ UNCHANGED <<regVars, supVars, gwVars>>
    /\ UNCHANGED <<mpVars, fsVars, catVars, calcVars>>

CreateInsert(q) ==
    /\ At(q, "create", "insert")
    /\ IF UniqueViolation(q.name, q.port, 0)
       THEN /\ Finish(q, "DbError")
            /\ UNCHANGED regVars
       ELSE /\ \E sp \in StoragePaths : db' = InsertServer(q.name, q.port, sp)
            /\ nextId' = nextId + 1
            /\ Answer(q, nextId, "created")
    /\ UNCHANGED <<supVars, gwVars>>
    /\ UNCHANGED <<mpVars, fsVars, catVars, calcVars>>

(* --------------------------- ServersService.update -------------------- *)
UpdateBegin ==
    /\ \E i \in Existing, n \in Names \cup {""}, p \in Ports \cup {0} :
         Begin("update", "find", i, n, p)
    /\ UNCHANGED <<regVars, supVars, gwVars>>
    /\ UNCHANGED <<mpVars, fsVars, catVars, calcVars>>

UpdateFind(q) ==
    /\ At(q, "update", "find")
    /\ IF db[q.id] = NoServer
       THEN Finish(q, "NotFound")
       ELSE Resume(q, [q EXCEPT !.pc = "checkName",
                                !.checkName = q.name # "" /\ q.name # db[q.id].name,
                                !.checkPort = q.port # 0 /\ q.port # db[q.id].port])
    /\ UNCHANGED <<regVars, supVars, gwVars>>
    /\ UNCHANGED <<mpVars, fsVars, catVars, calcVars>>

UpdateCheckName(q) ==
    /\ At(q, "update", "checkName")
    /\ IF q.checkName /\ FindByName(q.name) # {}
       THEN Finish(q, "ConflictName")
       ELSE Goto(q, "checkPort")
    /\ UNCHANGED <<regVars, supVars, gwVars>>
    /\ UNCHANGED <<mpVars, fsVars, catVars, calcVars>>

UpdateCheckPort(q) ==
    /\ At(q, "update", "checkPort")
    /\ IF q.checkPort /\ FindByPort(q.port) # {}
       THEN Finish(q, "ConflictPort")
       ELSE Goto(q, "write")
    /\ UNCHANGED <<regVars, supVars, gwVars>>
    /\ UNCHANGED <<mpVars, fsVars, catVars, calcVars>>

UpdateWrite(q) ==
    /\ At(q, "update", "write")
    /\ LET n == IF q.name = "" THEN db[q.id].name ELSE q.name
           p == IF q.port = 0 THEN db[q.id].port ELSE q.port
       IN IF db[q.id] = NoServer \/ UniqueViolation(n, p, q.id)
          THEN /\ Finish(q, "DbError")
               /\ UNCHANGED db
          ELSE /\ db' = [db EXCEPT ![q.id].name = n, ![q.id].port = p]
               /\ Finish(q, "updated")
    /\ UNCHANGED <<nextId, supVars, gwVars>>
    /\ UNCHANGED <<mpVars, fsVars, catVars, calcVars>>

(* ------------------- ModpacksService: port and server insert ---------- *)
\* A scan that tests the requested port only.
ScanOnce(port, occupiedPorts) ==
    IF port \in occupiedPorts THEN port + 1 ELSE port

RECURSIVE ScanPort(_, _)
ScanPort(port, occupiedPorts) ==
    IF port \in occupiedPorts THEN ScanPort(port + 1, occupiedPorts) ELSE port

findAvailablePort(requestedPort) ==
    ScanPort(requestedPort, {db[i].port : i \in Existing})

\* The ports a request may ask for (all pass @Min(1024) @Max(65535)) and the
\* ports existing records may hold: a run above the default port and the top
\* of the range.
RequestedPorts == {MinPort, DefaultPort, DefaultPort + 1, MaxPort - 1, MaxPort}

OccupiablePorts == (DefaultPort..(DefaultPort + MaxRun)) \cup {MaxPort - 1, MaxPort}

\* A findAvailablePort call about to run: the requested port, and the ports
\* prisma.server.findMany is going to return.
InitPortScan ==
    \E r \in RequestedPorts, occ \in SUBSET OccupiablePorts :
        portScan = [requestedPort |-> r, occupiedPorts |-> occ, port |-> 0]

\* The call runs; performServerCreation stores the port it returns in the
\* new record.
FindPort ==
    /\ portScan.port = 0
    /\ portScan' = [portScan EXCEPT !.port = ScanPort(portScan.requestedPort,
                                                      portScan.occupiedPorts)]
    /\ resp' = NoResp
    /\ UNCHANGED <<regVars, req, ops, supVars, gwVars, mpVars, fsVars, catVars, modDl>>

\* The milestones of a session, in the order performServerCreation emits them.
Milestones == <<"fetching", "downloading", "extracting", "parsing", "database",
                "port", "creating", "copying", "downloading-mods", "cleanup">>

\* this.server.emit on the modpacks namespace: the event goes to every socket
\* connected to the namespace.
Broadcast(sessionId, event) ==
    [c \in Sockets |-> IF c \in gone THEN received[c]
                                      ELSE Append(received[c], <<sessionId, event>>)]

\* ModpacksGateway.emitProgress: sent only while the session has subscribers.
emitProgress(sessionId, step) ==
    /\ emitted' = IF sessions[sessionId] # {}
                  THEN [emitted EXCEPT ![sessionId] = Append(@, step)]
                  ELSE emitted
    /\ received' = IF sessions[sessionId] # {}
                   THEN Broadcast(sessionId, step)
                   ELSE received
    /\ UNCHANGED <<nextSession, sessions, gone>>

\* ModpacksGateway.emitComplete / emitError: sent only while the session has
\* subscribers; the session's entry is deleted either way.
emitTerminal(sessionId, event) ==
    /\ emitted' = IF sessions[sessionId] # {}
                  THEN [emitted EXCEPT ![sessionId] = Append(@, event)]
                  ELSE emitted
    /\ received' = IF sessions[sessionId] # {}
                   THEN Broadcast(sessionId, event)
                   ELSE received
    /\ sessions' = [sessions EXCEPT ![sessionId] = {}]
    /\ UNCHANGED <<nextSession, gone>>

\* ModpacksService.createServerFromModpack: a session id is handed out and
\* performServerCreation runs in the background, first sleeping 500 ms.
ProvisionBegin ==
    /\ nextId + IdsReserved <= MaxServers
    /\ BagCardinality(req) < MaxReqs
    /\ ops < MaxOps
    /\ nextSession <= MaxSessions
    /\ ops' = ops + 1
    /\ nextSession' = nextSession + 1
    /\ \E n \in Names, p \in Ports :
         req' = req (+) SetToBag({[NoReq EXCEPT !.op = "provision", !.pc = "delay",
                                                !.name = n, !.port = p,
                                                !.session = nextSession]})
    /\ resp' = NoResp
    /\ UNCHANGED <<regVars, supVars, gwVars, fsVars, catVars, calcVars, sessions, gone, emitted, received>>

\* An await of performServerCreation resolves; the code runs to its next
\* await, emitting the next milestone on the way.
ProvisionAdvance(q, from, to) ==
    /\ At(q, "provision", from)
    /\ emitProgress(q.session, to)
    /\ Goto(q, to)
    /\ UNCHANGED <<regVars, supVars, gwVars, fsVars, catVars, calcVars>>

\* the 500 ms delay is over
ProvisionFetch(q) == ProvisionAdvance(q, "delay", "fetching")

\* getFileDetails and getModpackDetails have answered, with a download URL
ProvisionDownload(q) == ProvisionAdvance(q, "fetching", "downloading")

\* the archive is downloaded
ProvisionExtract(q) == ProvisionAdvance(q, "downloading", "extracting")

\* the temp directory exists and the archive is extracted into it
ProvisionParse(q) == ProvisionAdvance(q, "extracting", "parsing")

\* manifest.json is read and parsed
ProvisionDatabase(q) == ProvisionAdvance(q, "parsing", "database")

\* prisma.modpack.upsert has answered
ProvisionPort(q) == ProvisionAdvance(q, "database", "port")

\* findAvailablePort has answered
ProvisionFindPort(q) ==
    /\ At(q, "provision", "port")
    /\ emitProgress(q.session, "creating")
    /\ Resume(q, [q EXCEPT !.pc = "creating",
                           !.availablePort = findAvailablePort(q.port)])
    /\ UNCHANGED <<regVars, supVars, gwVars, fsVars, catVars, calcVars>>

\* prisma.server.create has answered: the row exists, or the insert was
\* refused and the catch block ends the session with an error.
ProvisionCreateServer(q) ==
    /\ At(q, "provision", "creating")
    /\ IF UniqueViolation(q.name, q.availablePort, 0)
       THEN /\ emitTerminal(q.session, "error")
            /\ Finish(q, "error")
            /\ UNCHANGED regVars
       ELSE /\ \E sp \in StoragePaths \cup {""} :
                 db' = InsertServer(q.name, q.availablePort,
                                    ModpackStoragePath(sp, q.name))
            /\ nextId' = nextId + 1
            /\ emitProgress(q.session, "copying")
            /\ Resume(q, [q EXCEPT !.pc = "copying", !.id = nextId])
    /\ UNCHANGED <<supVars, gwVars, fsVars, catVars, calcVars>>

\* copyModpackFiles has finished, having created the server's directory;
\* downloadMods starts on the manifest's mods.
ProvisionCopy(q) ==
    /\ At(q, "provision", "copying")
    /\ emitProgress(q.session, "downloading-mods")
    /\ \E n \in 0..MaxMods : Resume(q, [q EXCEPT !.pc = "mods", !.mods = n])
    /\ dirs' = dirs \cup {q.id}
    /\ UNCHANGED <<regVars, supVars, gwVars, fileOp, catVars, calcVars>>

\* downloadMods: one mod of the manifest is downloaded and written, or fails
\* and is only counted.
ProvisionMod(q, ok) ==
    /\ At(q, "provision", "mods")
    /\ q.mods > 0
    /\ IF ok
       THEN /\ emitProgress(q.session, "downloading-mods")
            /\ Resume(q, [q EXCEPT !.mods = @ - 1, !.downloadedMods = @ + 1])
       ELSE /\ Resume(q, [q EXCEPT !.mods = @ - 1])
            /\ UNCHANGED mpVars
    /\ UNCHANGED <<regVars, supVars, gwVars, fsVars, catVars, calcVars>>

\* downloadMods returns, or throws when no mod was downloaded.
ProvisionModsDone(q) ==
    /\ At(q, "provision", "mods")
    /\ q.mods = 0
    /\ IF q.downloadedMods = 0
       THEN /\ emitTerminal(q.session, "error")
            /\ Finish(q, "error")
       ELSE /\ emitProgress(q.session, "cleanup")
            /\ Goto(q, "cleanup")
    /\ UNCHANGED <<regVars, supVars, gwVars, fsVars, catVars, calcVars>>

\* fs.rm of the temp directory has finished: emitComplete(sessionId, server.id)
ProvisionComplete(q) ==
    /\ At(q, "provision", "cleanup")
    /\ emitTerminal(q.session, "complete")
    /\ Finish(q, "complete")
    /\ UNCHANGED <<regVars, supVars, gwVars, fsVars, catVars, calcVars>>

\* The awaits that reject when the catalog, the disk or the database fails.
Failable == {"fetching", "downloading", "extracting", "parsing", "database", "port",
             "copying", "cleanup"}

\* An await of performServerCreation rejects: the catch block emits the error.
\* When copyModpackFiles is the one that fails, its mkdir may have succeeded.
ProvisionFail(q) ==
    /\ q \in InFlight
    /\ q.op = "provision"
    /\ q.pc \in Failable
    /\ emitTerminal(q.session, "error")
    /\ Finish(q, "error")
    /\ \E made \in BOOLEAN :
         dirs' = IF made /\ q.pc = "copying" THEN dirs \cup {q.id} ELSE dirs
    /\ UNCHANGED <<regVars, supVars, gwVars, fileOp, catVars, calcVars>>

\* ModpacksGateway.subscribeToSession, for a session id that was handed out
subscribeToSession(c, sessionId) ==
    /\ c \notin gone
    /\ sessionId < nextSession
    /\ c \notin sessions[sessionId]
    /\ sessions' = [sessions EXCEPT ![sessionId] = @ \cup {c}]
    /\ resp' = NoResp
    /\ UNCHANGED <<regVars, supVars, gwVars, fsVars, catVars, calcVars, req, ops, nextSession, gone, emitted, received>>

\* ModpacksGateway.handleDisconnect: the socket leaves every session.
modpacksDisconnect(c) ==
    /\ c \notin gone
    /\ gone' = gone \cup {c}
    /\ sessions' = [i \in SessionIds |-> sessions[i] \ {c}]
    /\ resp' = NoResp
    /\ UNCHANGED <<regVars, supVars, gwVars, fsVars, catVars, calcVars, req, ops, nextSession, emitted, received>>

(* --------------------------- ServersService.remove -------------------- *)
RemoveBegin ==
    /\ \E i \in Existing : Begin("remove", "removeFind", i, "", 0)
    /\ UNCHANGED <<regVars, supVars, gwVars>>
    /\ UNCHANGED <<mpVars, fsVars, catVars, calcVars>>

\* AgentsService.removeContainer -> stopServer up to its await: return at once
\* when no child is tracked, else write 'stop', arm the 30 s timer and wait.
removeContainer(q) ==
    IF processes[q.id] = 0
    THEN /\ Goto(q, "delete")
         /\ UNCHANGED children
    ELSE /\ children' = [children EXCEPT ![processes[q.id]].stopWritten = TRUE]
         /\ Resume(q, [q EXCEPT !.pc = "removeWait", !.child = processes[q.id]])

\* findOne; a RUNNING record is stopped first (this.stop), any other goes
\* straight to removeContainer.
RemoveFind(q) ==
    /\ At(q, "remove", "removeFind")
    /\ IF db[q.id] = NoServer
       THEN /\ Finish(q, "NotFound")
            /\ UNCHANGED children
       ELSE IF db[q.id].status = "RUNNING"
       THEN /\ Goto(q, "find")
            /\ UNCHANGED children
       ELSE removeContainer(q)
    /\ UNCHANGED <<regVars, processes, currentStatus, logs, seq, logCallbacks,
                   statusCallbacks, pendingStatus, cmds, gwVars>>
    /\ UNCHANGED <<mpVars, fsVars, catVars, calcVars>>

\* The 30 s timer of removeContainer's stopServer fires: SIGTERM, resolve,
\* processes.delete.
RemoveTimeout(q) ==
    /\ At(q, "remove", "removeWait")
    /\ children[q.child].state = "alive"
    /\ children' = [children EXCEPT ![q.child].killed = TRUE,
                                    ![q.child].termSent = TRUE]
    /\ processes' = [processes EXCEPT ![q.id] = 0]
    /\ Resume(q, [q EXCEPT !.pc = "delete", !.child = 0])
    /\ UNCHANGED <<regVars, currentStatus, logs, seq, logCallbacks, statusCallbacks,
                   pendingStatus, cmds, gwVars>>
    /\ UNCHANGED <<mpVars, fsVars, catVars, calcVars>>

\* prisma.server.delete
RemoveDelete(q) ==
    /\ At(q, "remove", "delete")
    /\ IF db[q.id] = NoServer
       THEN /\ Finish(q, "DbError")
            /\ UNCHANGED db
       ELSE /\ db' = [db EXCEPT ![q.id] = NoServer]
            /\ Finish(q, "removed")
    /\ UNCHANGED <<nextId, supVars, gwVars>>
    /\ UNCHANGED <<mpVars, fsVars, catVars, calcVars>>

(* --------------------------- ServersService: files -------------------- *)
\* Paths are strings, modelled as sequences of characters.
Chars == {"/", ".", "a"}

Strings(n) == UNION {[1..k -> Chars] : k \in 0..n}

RequestedPaths == Strings(MaxPathLen)

\* The file name of the multipart part, handed on as file.originalname.
FileNames == Strings(MaxFileNameLen) \ {<<>>}

\* path.join(serversBaseDir, server.storagePath), as its segments
serverPath == << <<"d">>, <<"s">> >>

\* validatePath: TRUE when the requested path is refused
InvalidPath(requestedPath) ==
    \/ \E i \in 1..(Len(requestedPath) - 1) :
          requestedPath[i] = "." /\ requestedPath[i + 1] = "."
    \/ Len(requestedPath) > 0 /\ requestedPath[1] = "/"

\* The segments of a string between separators.
RECURSIVE Split(_, _, _)
Split(str, cur, acc) ==
    IF str = <<>> THEN Append(acc, cur)
    ELSE IF Head(str) = "/" THEN Split(Tail(str), <<>>, Append(acc, cur))
    ELSE Split(Tail(str), Append(cur, Head(str)), acc)

\* path.normalize on the segments of an absolute path
RECURSIVE Normalize(_, _)
Normalize(segs, acc) ==
    IF segs = <<>> THEN acc
    ELSE LET seg == Head(segs)
         IN IF seg = <<>> \/ seg = <<".">> THEN Normalize(Tail(segs), acc)
            ELSE IF seg = <<".", ".">>
                 THEN Normalize(Tail(segs),
                                IF acc = <<>> THEN acc ELSE SubSeq(acc, 1, Len(acc) - 1))
            ELSE Normalize(Tail(segs), Append(acc, seg))

\* path.join(serverPath, relativePath)
join(relativePath) == Normalize(serverPath \o Split(relativePath, <<>>, <<>>), <<>>)

\* path.join(serverPath, relativePath, file.originalname)
joinName(relativePath, originalname) ==
    Normalize(serverPath \o Split(relativePath, <<>>, <<>>)
                         \o Split(originalname, <<>>, <<>>), <<>>)

\* The path lies in the server's storage directory.
WithinRoot(target) ==
    Len(target) >= Len(serverPath) /\ SubSeq(target, 1, Len(serverPath)) = serverPath

\* validatePath, getServerPath (findOne), then the fs calls on fullPath
FileRequest(op, s, relativePath, fullPath) ==
    /\ fileOp' = [op |-> op, server |-> s, path |-> relativePath,
                  result |-> IF InvalidPath(relativePath) THEN "InvalidPath"
                             ELSE IF db[s] = NoServer THEN "NotFound"
                             ELSE "acted",
                  target |-> IF InvalidPath(relativePath) \/ db[s] = NoServer
                             THEN <<>> ELSE fullPath]
    /\ resp' = NoResp
    /\ UNCHANGED <<regVars, req, ops, supVars, gwVars, mpVars, dirs, catVars, calcVars>>

listFiles(s, relativePath) == FileRequest("list", s, relativePath, join(relativePath))

readFile(s, relativePath) == FileRequest("read", s, relativePath, join(relativePath))

downloadFile(s, relativePath) ==
    FileRequest("download", s, relativePath, join(relativePath))

writeFile(s, relativePath) == FileRequest("write", s, relativePath, join(relativePath))

uploadFile(s, relativePath, originalname) ==
    FileRequest("upload", s, relativePath, joinName(relativePath, originalname))

createDirectory(s, relativePath) ==
    FileRequest("mkdir", s, relativePath, join(relativePath))

deleteFile(s, relativePath) == FileRequest("delete", s, relativePath, join(relativePath))

(* --------------------- ModpacksService.downloadMods ------------------- *)
\* A loop that starts its next batch without awaiting the one before.
BatchUnawaited(d) == TRUE

\* await Promise.allSettled(...) of the current batch has resolved: every
\* download of the batch has succeeded or failed.
BatchSettled(d) == d.fetching + d.writing = 0

\* A downloadMods call about to run on a manifest of any length.
InitMods ==
    \E n \in 0..MaxManifestMods : modDl = [NoMods EXCEPT !.totalMods = n]

Min(a, b) == IF a <= b THEN a ELSE b

ModsUnchanged ==
    /\ resp' = NoResp
    /\ UNCHANGED <<regVars, req, ops, supVars, gwVars, mpVars, fsVars, catVars, portScan>>

\* The loop takes the next slice of at most batchSize mods and calls
\* downloadModFile for each of them.
BatchStart ==
    /\ modDl.returned = "no"
    /\ BatchSettled(modDl)
    /\ modDl.started < modDl.totalMods
    /\ LET n == Min(batchSize, modDl.totalMods - modDl.started)
       IN modDl' = [modDl EXCEPT !.started = @ + n, !.fetching = @ + n]
    /\ ModsUnchanged

\* downloadModFile resolves: fs.writeFile is called.
ModFetched ==
    /\ modDl.fetching > 0
    /\ modDl' = [modDl EXCEPT !.fetching = @ - 1, !.writing = @ + 1]
    /\ ModsUnchanged

\* downloadModFile rejects: the mod is counted as failed.
ModFetchFailed ==
    /\ modDl.fetching > 0
    /\ modDl' = [modDl EXCEPT !.fetching = @ - 1, !.failedMods = @ + 1]
    /\ ModsUnchanged

\* fs.writeFile resolves: the mod is counted as downloaded.
ModWritten ==
    /\ modDl.writing > 0
    /\ modDl' = [modDl EXCEPT !.writing = @ - 1, !.downloadedMods = @ + 1]
    /\ ModsUnchanged

\* fs.writeFile rejects: the mod is counted as failed.
ModWriteFailed ==
    /\ modDl.writing > 0
    /\ modDl' = [modDl EXCEPT !.writing = @ - 1, !.failedMods = @ + 1]
    /\ ModsUnchanged

\* The loop is over: downloadMods returns, or throws when nothing was downloaded.
ModsReturn ==
    /\ modDl.returned = "no"
    /\ BatchSettled(modDl)
    /\ modDl.started = modDl.totalMods
    /\ modDl' = [modDl EXCEPT !.returned = IF modDl.downloadedMods = 0
                                           THEN "BadRequest" ELSE "ok"]
    /\ ModsUnchanged

(* ------------------- CurseForgeService.getModListFromFile ------------- *)
\* The call up to its first await: a fresh entry is returned at once, else
\* getFileDetails is requested.
ModListBegin(k) ==
    /\ IF modListCache[k] = "fresh"
       THEN /\ resp' = [NoResp EXCEPT !.op = "modlist", !.id = k, !.result = "cached"]
            /\ UNCHANGED <<req, ops>>
       ELSE Begin("modlist", "fileDetails", k, "", 0)
    /\ UNCHANGED <<regVars, supVars, gwVars, mpVars, fsVars, catVars, calcVars>>

\* getFileDetails has answered with a download URL: the archive download starts.
ModListDownload(q) ==
    /\ At(q, "modlist", "fileDetails")
    /\ Goto(q, "download")
    /\ UNCHANGED <<regVars, supVars, gwVars, mpVars, fsVars, catVars, calcVars>>

\* The archive is downloaded and its manifest parsed: getModsByIds is requested.
ModListDetails(q) ==
    /\ At(q, "modlist", "download")
    /\ Goto(q, "details")
    /\ UNCHANGED <<regVars, supVars, gwVars, mpVars, fsVars, catVars, calcVars>>

\* The mod details have arrived: the result is cached and returned.
ModListCached(q) ==
    /\ At(q, "modlist", "details")
    /\ modListCache' = [modListCache EXCEPT ![q.id] = "fresh"]
    /\ Finish(q, "ok")
    /\ UNCHANGED <<regVars, supVars, gwVars, mpVars, fsVars, calcVars>>

\* One of the awaits rejects, or the archive has no manifest.
ModListFail(q) ==
    /\ q \in InFlight
    /\ q.op = "modlist"
    /\ Finish(q, "BadRequest")
    /\ UNCHANGED <<regVars, supVars, gwVars, mpVars, fsVars, catVars, calcVars>>

\* CACHE_TTL passes for an entry.
ModListExpire(k) ==
    /\ modListCache[k] = "fresh"
    /\ modListCache' = [modListCache EXCEPT ![k] = "stale"]
    /\ resp' = NoResp
    /\ UNCHANGED <<regVars, req, ops, supVars, gwVars, mpVars, fsVars, calcVars>>

(* ----------------------- AgentsService: logs and status --------------- *)
\* A backlog that is sent without the oldest line of the ring.
getLogsTail(s) == IF logs[s] = <<>> THEN <<>> ELSE Tail(logs[s])

\* AgentsService.getLogs
getLogs(s) == logs[s]

\* ServersGateway.broadcastLog, once per registered log callback
RECURSIVE broadcastLog(_, _, _, _)
broadcastLog(box, s, line, times) ==
    IF times = 0 THEN box
    ELSE broadcastLog(
           [c \in Clients |->
              IF c \in serverSubscriptions[s]
              THEN [box[c] EXCEPT ![s].live = Append(@, line)]
              ELSE box[c]],
           s, line, times - 1)

\* A ring that refuses the new line when it is full.
PushedKeepOldest(ring, line) ==
    IF Len(ring) >= MAX_LOG_LINES THEN ring ELSE Append(ring, line)

\* The ring after one more line: push, then shift once when over the capacity.
Pushed(ring, line) ==
    LET l == Append(ring, line)
    IN IF Len(l) > MAX_LOG_LINES THEN Tail(l) ELSE l

\* AgentsService.addLog
addLog(s) ==
    /\ seq < MaxLines
    /\ seq' = seq + 1
    /\ logs' = [logs EXCEPT ![s] = Pushed(logs[s], seq + 1)]
    /\ inbox' = broadcastLog(inbox, s, seq + 1, logCallbacks[s])

\* ServersGateway.broadcastStatus to the client set subs, once per callback
broadcastStatus(sent, subs, s, status, times) ==
    IF times = 0 THEN sent
    ELSE [c \in Clients |->
            IF c \in subs THEN [sent[c] EXCEPT ![s] = status] ELSE sent[c]]

\* AgentsService.emitStatus: store, then call every status callback, each of
\* which broadcasts and calls ServersService.updateStatus.
emitStatus(s, status) ==
    /\ Len(pendingStatus[s]) + statusCallbacks[s] <= MaxPending
    /\ currentStatus' = [currentStatus EXCEPT ![s] = status]
    /\ statusSent' = broadcastStatus(statusSent, serverSubscriptions[s], s, status,
                                     statusCallbacks[s])
    /\ pendingStatus' = [pendingStatus EXCEPT
                           ![s] = @ \o [k \in 1..statusCallbacks[s] |-> status]]

\* AgentsService.detectStatusFromLog: the status a line makes it emit, if any.
detectStatusFromLog(kind) ==
    IF kind = "done" THEN "RUNNING"
    ELSE IF kind = "starting" THEN "STARTING"
    ELSE IF kind = "stopping" THEN "STOPPING"
    ELSE "none"

\* The kinds of line a child may print: the ready line ("Done (..)! For help,
\* type "help""), a "Starting minecraft server" line, a "Stopping server" /
\* "Saving worlds" line, or any other text.
LineKinds == {"plain", "done", "starting", "stopping"}

\* ServersService.updateStatus: the status map
statusMap(status) ==
    IF status = "EXITED" THEN "ERROR" ELSE status

(* ------------------------- child process events ----------------------- *)
\* serverProcess.stdout.on('data'): one line
StdoutLine(c, kind) ==
    /\ children[c].state = "alive"
    /\ addLog(children[c].server)
    /\ IF detectStatusFromLog(kind) = "none"
       THEN UNCHANGED <<currentStatus, pendingStatus, statusSent>>
       ELSE emitStatus(children[c].server, detectStatusFromLog(kind))
    /\ children' = [children EXCEPT ![c].ready = @ \/ kind = "done"]
    /\ resp' = NoResp
    /\ UNCHANGED <<regVars, req, ops, processes, logCallbacks, statusCallbacks,
                   serverSubscriptions, cmds>>
    /\ UNCHANGED <<mpVars, fsVars, catVars, calcVars>>

\* serverProcess.stderr.on('data'): one line
StderrLine(c) ==
    /\ children[c].state = "alive"
    /\ addLog(children[c].server)
    /\ resp' = NoResp
    /\ UNCHANGED <<regVars, req, ops, processes, children, currentStatus, pendingStatus,
                   logCallbacks, statusCallbacks, serverSubscriptions, statusSent, cmds>>
    /\ UNCHANGED <<mpVars, fsVars, catVars, calcVars>>

\* The invocations a child's exit releases: stopServer's own exit listener
\* resolves its wait, and the continuation runs before any other event.
Released(q, c) ==
    IF q.pc = "wait" /\ q.child = c THEN [q EXCEPT !.pc = "clearContainer"]
    ELSE IF q.pc = "removeWait" /\ q.child = c THEN [q EXCEPT !.pc = "delete"]
    ELSE q

RECURSIVE CopiesOf(_, _)
CopiesOf(S, B) ==
    IF S = {} THEN 0 ELSE LET q == CHOOSE x \in S : TRUE IN B[q] + CopiesOf(S \ {q}, B)

ReleasedBag(c) ==
    LET T == {Released(q, c) : q \in InFlight}
    IN [y \in T |-> CopiesOf({q \in InFlight : Released(q, c) = y}, req)]

\* serverProcess.on('exit'), code 0, another code, or none (killed by a signal)
ExitCodes == {"zero", "nonzero", "signal"}

ChildExit(c, code) ==
    /\ children[c].state = "alive"
    /\ addLog(children[c].server)
    /\ emitStatus(children[c].server, IF code = "zero" THEN "STOPPED" ELSE "EXITED")
    /\ processes' = [processes EXCEPT ![children[c].server] = 0]
    /\ children' = [children EXCEPT ![c].state = "exited", ![c].code = code]
    /\ req' = ReleasedBag(c)
    /\ resp' = NoResp
    /\ UNCHANGED <<regVars, ops, logCallbacks, statusCallbacks, serverSubscriptions, cmds>>
    /\ UNCHANGED <<mpVars, fsVars, catVars, calcVars>>

\* One updateStatus call reaches the database.
ApplyStatus(s) ==
    /\ pendingStatus[s] # <<>>
    /\ pendingStatus' = [pendingStatus EXCEPT ![s] = Tail(@)]
    /\ db' = IF db[s] = NoServer THEN db
             ELSE [db EXCEPT ![s].status = statusMap(Head(pendingStatus[s]))]
    /\ resp' = NoResp
    /\ UNCHANGED <<nextId, req, ops, processes, children, currentStatus, logs, seq,
                   logCallbacks, statusCallbacks, cmds, gwVars>>
    /\ UNCHANGED <<mpVars, fsVars, catVars, calcVars>>

(* --------------------------- ServersService.start --------------------- *)
StartBegin ==
    /\ \E i \in Existing : Begin("start", "find", i, "", 0)
    /\ UNCHANGED <<regVars, supVars, gwVars>>
    /\ UNCHANGED <<mpVars, fsVars, catVars, calcVars>>

\* findOne and the check of the record's status
StartFind(q) ==
    /\ At(q, "start", "find")
    /\ IF db[q.id] = NoServer THEN Finish(q, "NotFound")
       ELSE IF db[q.id].status = "RUNNING" THEN Finish(q, "AlreadyRunning")
       ELSE Goto(q, "setStarting")
    /\ UNCHANGED <<regVars, supVars, gwVars>>
    /\ UNCHANGED <<mpVars, fsVars, catVars, calcVars>>

\* prisma.server.update({ status: STARTING })
StartSetStarting(q) ==
    /\ At(q, "start", "setStarting")
    /\ IF db[q.id] = NoServer
       THEN /\ Finish(q, "DbError")
            /\ UNCHANGED db
       ELSE /\ db' = [db EXCEPT ![q.id].status = "STARTING"]
            /\ Goto(q, "prepare")
    /\ UNCHANGED <<nextId, supVars, gwVars>>
    /\ UNCHANGED <<mpVars, fsVars, catVars, calcVars>>

\* AgentsService.startServer fails in one of its awaits (mkdir, the jar
\* download, server.properties, eula.txt) before anything is spawned.
StartPrepareFail(q) ==
    /\ At(q, "start", "prepare")
    /\ Goto(q, "catch")
    /\ \E made \in BOOLEAN : dirs' = IF made THEN dirs \cup {q.id} ELSE dirs
    /\ UNCHANGED <<regVars, supVars, gwVars>>
    /\ UNCHANGED <<mpVars, fileOp, catVars, calcVars>>

FreeChildren == {c \in ChildIds : children[c].state = "none"}

\* AgentsService.startServer after its last await: spawn, processes.set,
\* emitStatus('STARTING'), then the handlers are attached.
StartSpawn(q) ==
    /\ At(q, "start", "prepare")
    /\ FreeChildren # {}
    /\ LET c == CHOOSE x \in FreeChildren : \A y \in FreeChildren : x <= y
       IN /\ children' = [children EXCEPT ![c] = [NoChild EXCEPT !.server = q.id,
                                                                  !.state = "alive"]]
          /\ processes' = [processes EXCEPT ![q.id] = c]
    /\ emitStatus(q.id, "STARTING")
    /\ Goto(q, "setContainer")
    /\ dirs' = dirs \cup {q.id}
    /\ UNCHANGED <<regVars, logs, seq, logCallbacks, statusCallbacks, cmds,
                   serverSubscriptions, inbox>>
    /\ UNCHANGED <<mpVars, fileOp, catVars, calcVars>>

\* prisma.server.update({ containerId, agentUrl }); when it throws, the catch
\* block's own update throws as well.
StartSetContainer(q) ==
    /\ At(q, "start", "setContainer")
    /\ IF db[q.id] = NoServer
       THEN /\ Finish(q, "DbError")
            /\ UNCHANGED db
       ELSE /\ db' = [db EXCEPT ![q.id].containerId = TRUE]
            /\ Finish(q, "started")
    /\ UNCHANGED <<nextId, supVars, gwVars>>
    /\ UNCHANGED <<mpVars, fsVars, catVars, calcVars>>

\* catch: prisma.server.update({ status: ERROR }), then rethrow
StartCatch(q) ==
    /\ At(q, "start", "catch")
    /\ IF db[q.id] = NoServer
       THEN /\ Finish(q, "DbError")
            /\ UNCHANGED db
       ELSE /\ db' = [db EXCEPT ![q.id].status = "ERROR"]
            /\ Finish(q, "StartFailed")
    /\ UNCHANGED <<nextId, supVars, gwVars>>
    /\ UNCHANGED <<mpVars, fsVars, catVars, calcVars>>

(* --------------------------- ServersService.stop ---------------------- *)
\* ServersService.stop runs for a stop request and, on a RUNNING record, as
\* the first part of remove.
AtStop(q, pc) == q \in InFlight /\ q.op \in {"stop", "remove"} /\ q.pc = pc

StopBegin ==
    /\ \E i \in Existing : Begin("stop", "find", i, "", 0)
    /\ UNCHANGED <<regVars, supVars, gwVars>>
    /\ UNCHANGED <<mpVars, fsVars, catVars, calcVars>>

StopFind(q) ==
    /\ AtStop(q, "find")
    /\ IF db[q.id] = NoServer THEN Finish(q, "NotFound")
       ELSE IF db[q.id].status = "STOPPED" THEN Finish(q, "AlreadyStopped")
       ELSE Goto(q, "setStopping")
    /\ UNCHANGED <<regVars, supVars, gwVars>>
    /\ UNCHANGED <<mpVars, fsVars, catVars, calcVars>>

\* prisma.server.update({ status: STOPPING })
StopSetStopping(q) ==
    /\ AtStop(q, "setStopping")
    /\ IF db[q.id] = NoServer
       THEN /\ Finish(q, "DbError")
            /\ UNCHANGED db
       ELSE /\ db' = [db EXCEPT ![q.id].status = "STOPPING"]
            /\ Goto(q, "stopServer")
    /\ UNCHANGED <<nextId, supVars, gwVars>>
    /\ UNCHANGED <<mpVars, fsVars, catVars, calcVars>>

\* AgentsService.stopServer up to its await: return when no child is tracked,
\* else write 'stop' to the child's stdin, arm the 30 s timer and wait.
StopServer(q) ==
    /\ AtStop(q, "stopServer")
    /\ IF processes[q.id] = 0
       THEN /\ Goto(q, "clearContainer")
            /\ UNCHANGED children
       ELSE /\ children' = [children EXCEPT ![processes[q.id]].stopWritten = TRUE]
            /\ Resume(q, [q EXCEPT !.pc = "wait", !.child = processes[q.id]])
    /\ UNCHANGED <<regVars, processes, currentStatus, logs, seq, logCallbacks,
                   statusCallbacks, pendingStatus, cmds, gwVars>>
    /\ UNCHANGED <<mpVars, fsVars, catVars, calcVars>>

\* The 30 s timer fires (the child has not exited, or the exit listener would
\* have cleared it): process.kill('SIGTERM'), resolve, processes.delete.
StopTimeout(q) ==
    /\ AtStop(q, "wait")
    /\ children[q.child].state = "alive"
    /\ children' = [children EXCEPT ![q.child].killed = TRUE,
                                    ![q.child].termSent = TRUE]
    /\ processes' = [processes EXCEPT ![q.id] = 0]
    /\ Resume(q, [q EXCEPT !.pc = "clearContainer", !.child = 0])
    /\ UNCHANGED <<regVars, currentStatus, logs, seq, logCallbacks, statusCallbacks,
                   pendingStatus, cmds, gwVars>>
    /\ UNCHANGED <<mpVars, fsVars, catVars, calcVars>>

\* prisma.server.update({ containerId: null, agentUrl: null }); when it
\* throws, the catch block's own update throws as well.
StopClearContainer(q) ==
    /\ AtStop(q, "clearContainer")
    /\ IF db[q.id] = NoServer
       THEN /\ Finish(q, "DbError")
            /\ UNCHANGED <<db, children>>
       ELSE /\ db' = [db EXCEPT ![q.id].containerId = FALSE]
            /\ IF q.op = "stop"
               THEN /\ Finish(q, "stopped")
                    /\ UNCHANGED children
               ELSE removeContainer(q)
    /\ UNCHANGED <<nextId, processes, currentStatus, logs, seq, logCallbacks,
                   statusCallbacks, pendingStatus, cmds, gwVars>>
    /\ UNCHANGED <<mpVars, fsVars, catVars, calcVars>>

(* ---------------- ServersGateway.handleCommand / sendCommand ---------- *)
\* No await separates the check from the write, so one action.
SendCommand(s) ==
    /\ cmds < MaxCmds
    /\ cmds' = cmds + 1
    /\ IF processes[s] = 0 \/ children[processes[s]].killed
       THEN /\ resp' = [NoResp EXCEPT !.op = "command", !.id = s,
                                      !.result = "NotRunning"]
            /\ UNCHANGED <<children, logs, seq, inbox>>
       ELSE /\ children' = [children EXCEPT ![processes[s]].cmdWritten = TRUE]
            /\ addLog(s)
            /\ resp' = [NoResp EXCEPT !.op = "command", !.id = s,
                                      !.result = "written"]
    /\ UNCHANGED <<regVars, req, ops, processes, currentStatus, logCallbacks,
                   statusCallbacks, pendingStatus, serverSubscriptions, statusSent>>
    /\ UNCHANGED <<mpVars, fsVars, catVars, calcVars>>

(* ------------------------------ ServersGateway ------------------------ *)
\* handleSubscribe: the first subscriber of a server registers the log and
\* status callbacks (subscribeToStatus calls the new callback at once with the
\* stored status, which broadcasts to the still empty client set and calls
\* updateStatus); then the client is added and sent the backlog.
handleSubscribe(c, s) ==
    /\ LET first == serverSubscriptions[s] = {}
           replay == first /\ currentStatus[s] # "none"
       IN /\ first => logCallbacks[s] < MaxCallbacks /\ statusCallbacks[s] < MaxCallbacks
          /\ replay => Len(pendingStatus[s]) < MaxPending
          /\ logCallbacks' = IF first THEN [logCallbacks EXCEPT ![s] = @ + 1]
                             ELSE logCallbacks
          /\ statusCallbacks' = IF first THEN [statusCallbacks EXCEPT ![s] = @ + 1]
                                ELSE statusCallbacks
          /\ pendingStatus' = IF replay
                              THEN [pendingStatus EXCEPT ![s] = Append(@, currentStatus[s])]
                              ELSE pendingStatus
          /\ statusSent' =
               LET fresh == [statusSent EXCEPT ![c][s] = "none"]
               IN IF replay
                  THEN broadcastStatus(fresh, serverSubscriptions[s], s,
                                       currentStatus[s], 1)
                  ELSE fresh
    /\ serverSubscriptions' = [serverSubscriptions EXCEPT ![s] = @ \cup {c}]
    /\ inbox' = [inbox EXCEPT ![c][s] = [subscribed |-> TRUE, ringAtSub |-> logs[s],
                                         backlog |-> getLogs(s), live |-> <<>>]]
    /\ resp' = NoResp
    /\ UNCHANGED <<regVars, req, ops, processes, children, currentStatus, logs, seq, cmds>>
    /\ UNCHANGED <<mpVars, fsVars, catVars, calcVars>>

\* handleUnsubscribe: the last subscriber leaving drops the callbacks.
handleUnsubscribe(c, s) ==
    /\ c \in serverSubscriptions[s]
    /\ serverSubscriptions' = [serverSubscriptions EXCEPT ![s] = @ \ {c}]
    /\ IF serverSubscriptions[s] = {c}
       THEN /\ logCallbacks' = [logCallbacks EXCEPT ![s] = 0]
            /\ statusCallbacks' = [statusCallbacks EXCEPT ![s] = 0]
       ELSE UNCHANGED <<logCallbacks, statusCallbacks>>
    /\ inbox' = [inbox EXCEPT ![c][s] = NoInbox]
    /\ statusSent' = [statusSent EXCEPT ![c][s] = "none"]
    /\ resp' = NoResp
    /\ UNCHANGED <<regVars, req, ops, processes, children, currentStatus, logs, seq,
                   pendingStatus, cmds>>
    /\ UNCHANGED <<mpVars, fsVars, catVars, calcVars>>

\* handleDisconnect: the client leaves every set; the callbacks stay.
handleDisconnect(c) ==
    /\ \E s \in ServerIds : c \in serverSubscriptions[s]
    /\ serverSubscriptions' = [s \in ServerIds |-> serverSubscriptions[s] \ {c}]
    /\ inbox' = [inbox EXCEPT ![c] = [s \in ServerIds |-> NoInbox]]
    /\ statusSent' = [statusSent EXCEPT ![c] = [s \in ServerIds |-> "none"]]
    /\ resp' = NoResp
    /\ UNCHANGED <<regVars, req, ops, processes, children, currentStatus, logs, seq,
                   logCallbacks, statusCallbacks, pendingStatus, cmds>>
    /\ UNCHANGED <<mpVars, fsVars, catVars, calcVars>>

(* ------------------------------ initial states ------------------------ *)
\* The backend after construction: no child, no log, no subscriber.
InitServices ==
    /\ processes = [i \in ServerIds |-> 0]
    /\ children = [c \in ChildIds |-> NoChild]
    /\ currentStatus = [i \in ServerIds |-> "none"]
    /\ logs = [i \in ServerIds |-> <<>>]
    /\ seq = 0
    /\ logCallbacks = [i \in ServerIds |-> 0]
    /\ statusCallbacks = [i \in ServerIds |-> 0]
    /\ pendingStatus = [i \in ServerIds |-> <<>>]
    /\ serverSubscriptions = [i \in ServerIds |-> {}]
    /\ inbox = [c \in Clients |-> [i \in ServerIds |-> NoInbox]]
    /\ statusSent = [c \in Clients |-> [i \in ServerIds |-> "none"]]
    /\ nextSession = 1
    /\ sessions = [i \in SessionIds |-> {}]
    /\ gone = {}
    /\ emitted = [i \in SessionIds |-> <<>>]
    /\ received = [c \in Sockets |-> <<>>]
    /\ dirs = {}
    /\ fileOp = NoFileOp
    /\ modListCache = [k \in CacheKeys |-> "none"]
    /\ req = EmptyBag
    /\ resp = NoResp
    /\ ops = 0
    /\ cmds = 0

InitSupervisor ==
    /\ InitServices
    /\ portScan = NoScan
    /\ modDl = NoMods

\* The table survives restarts: rows created by earlier runs, all stopped.
StoredNames == <<"alpha", "beta">>

Stored(k) ==
    [i \in ServerIds |->
       IF i <= k
       THEN [name |-> StoredNames[i], storagePath |-> StoredNames[i],
             port |-> DefaultPort + i - 1,
             status |-> "STOPPED", containerId |-> FALSE]
       ELSE NoServer]

InitRegistry ==
    /\ \E k \in 0..Len(StoredNames) : db = Stored(k) /\ nextId = k + 1
    /\ InitSupervisor

RegistryNext ==
    \/ CreateBegin
    \/ UpdateBegin
    \/ ProvisionBegin
    \/ RemoveBegin
    \/ \E q \in InFlight : CreateCheckName(q)
    \/ \E q \in InFlight : CreateCheckPort(q)
    \/ \E q \in InFlight : CreateInsert(q)
    \/ \E q \in InFlight : UpdateFind(q)
    \/ \E q \in InFlight : UpdateCheckName(q)
    \/ \E q \in InFlight : UpdateCheckPort(q)
    \/ \E q \in InFlight : UpdateWrite(q)
    \/ \E q \in InFlight : ProvisionFetch(q)
    \/ \E q \in InFlight : ProvisionDownload(q)
    \/ \E q \in InFlight : ProvisionExtract(q)
    \/ \E q \in InFlight : ProvisionParse(q)
    \/ \E q \in InFlight : ProvisionDatabase(q)
    \/ \E q \in InFlight : ProvisionPort(q)
    \/ \E q \in InFlight : ProvisionFindPort(q)
    \/ \E q \in InFlight : ProvisionCreateServer(q)
    \/ \E q \in InFlight : RemoveFind(q)
    \/ \E q \in InFlight : RemoveDelete(q)

RegistrySpec == InitRegistry /\ [][RegistryNext]_vars

\* POST /servers requests alone, running concurrently.
CreateNext ==
    \/ CreateBegin
    \/ \E q \in InFlight : CreateCheckName(q)
    \/ \E q \in InFlight : CreateCheckPort(q)
    \/ \E q \in InFlight : CreateInsert(q)

CreateSpec == InitRegistry /\ [][CreateNext]_vars

\* Provisioning sessions, their subscribers, and DELETE /servers/:id requests
\* against the records they insert.
ProvisionNext ==
    \/ ProvisionBegin
    \/ RemoveBegin
    \/ \E q \in InFlight : ProvisionFetch(q)
    \/ \E q \in InFlight : ProvisionDownload(q)
    \/ \E q \in InFlight : ProvisionExtract(q)
    \/ \E q \in InFlight : ProvisionParse(q)
    \/ \E q \in InFlight : ProvisionDatabase(q)
    \/ \E q \in InFlight : ProvisionPort(q)
    \/ \E q \in InFlight : ProvisionFindPort(q)
    \/ \E q \in InFlight : ProvisionCreateServer(q)
    \/ \E q \in InFlight : ProvisionCopy(q)
    \/ \E q \in InFlight, ok \in BOOLEAN : ProvisionMod(q, ok)
    \/ \E q \in InFlight : ProvisionModsDone(q)
    \/ \E q \in InFlight : ProvisionComplete(q)
    \/ \E q \in InFlight : ProvisionFail(q)
    \/ \E q \in InFlight : RemoveFind(q)
    \/ \E q \in InFlight : RemoveDelete(q)
    \/ \E c \in Clients, i \in SessionIds : subscribeToSession(c, i)
    \/ \E c \in Clients : modpacksDisconnect(c)

ProvisionSpec == InitRegistry /\ [][ProvisionNext]_vars

\* Provisioning sessions and the sockets of the modpacks namespace.
SessionNext ==
    \/ ProvisionBegin
    \/ \E q \in InFlight : ProvisionFetch(q)
    \/ \E q \in InFlight : ProvisionDownload(q)
    \/ \E q \in InFlight : ProvisionExtract(q)
    \/ \E q \in InFlight : ProvisionParse(q)
    \/ \E q \in InFlight : ProvisionDatabase(q)
    \/ \E q \in InFlight : ProvisionPort(q)
    \/ \E q \in InFlight : ProvisionFindPort(q)
    \/ \E q \in InFlight : ProvisionCreateServer(q)
    \/ \E q \in InFlight : ProvisionCopy(q)
    \/ \E q \in InFlight, ok \in BOOLEAN : ProvisionMod(q, ok)
    \/ \E q \in InFlight : ProvisionModsDone(q)
    \/ \E q \in InFlight : ProvisionComplete(q)
    \/ \E q \in InFlight : ProvisionFail(q)
    \/ \E c \in Sockets, i \in SessionIds : subscribeToSession(c, i)
    \/ \E c \in Sockets : modpacksDisconnect(c)

SessionSpec == InitRegistry /\ [][SessionNext]_vars

InitLifecycle ==
    /\ db = Stored(1)
    /\ nextId = 2
    /\ InitSupervisor

SupervisorNext ==
    \/ StartBegin
    \/ StopBegin
    \/ \E q \in InFlight : StartFind(q)
    \/ \E q \in InFlight : StartSetStarting(q)
    \/ \E q \in InFlight : StartPrepareFail(q)
    \/ \E q \in InFlight : StartSpawn(q)
    \/ \E q \in InFlight : StartSetContainer(q)
    \/ \E q \in InFlight : StartCatch(q)
    \/ \E q \in InFlight : StopFind(q)
    \/ \E q \in InFlight : StopSetStopping(q)
    \/ \E q \in InFlight : StopServer(q)
    \/ \E q \in InFlight : StopTimeout(q)
    \/ \E q \in InFlight : StopClearContainer(q)
    \/ \E c \in ChildIds, kind \in LineKinds : StdoutLine(c, kind)
    \/ \E c \in ChildIds : StderrLine(c)
    \/ \E c \in ChildIds, code \in ExitCodes : ChildExit(c, code)
    \/ \E s \in Existing : SendCommand(s)
    \/ \E s \in ServerIds : ApplyStatus(s)
    \/ \E c \in Clients, s \in Existing : handleSubscribe(c, s)
    \/ \E c \in Clients, s \in ServerIds : handleUnsubscribe(c, s)
    \/ \E c \in Clients : handleDisconnect(c)

SupervisorSpec == InitLifecycle /\ [][SupervisorNext]_vars

\* The console of one server whose start has just completed: the record is
\* STARTING with its container id set, its child is alive, STARTING is stored.
InitConsole ==
    /\ db = [Stored(1) EXCEPT ![1].status = "STARTING", ![1].containerId = TRUE]
    /\ nextId = 2
    /\ processes = [i \in ServerIds |-> IF i = 1 THEN 1 ELSE 0]
    /\ children = [c \in ChildIds |->
                     IF c = 1 THEN [NoChild EXCEPT !.server = 1, !.state = "alive"]
                     ELSE NoChild]
    /\ currentStatus = [i \in ServerIds |-> IF i = 1 THEN "STARTING" ELSE "none"]
    /\ logs = [i \in ServerIds |-> <<>>]
    /\ seq = 0
    /\ logCallbacks = [i \in ServerIds |-> 0]
    /\ statusCallbacks = [i \in ServerIds |-> 0]
    /\ pendingStatus = [i \in ServerIds |-> <<>>]
    /\ serverSubscriptions = [i \in ServerIds |-> {}]
    /\ inbox = [c \in Clients |-> [i \in ServerIds |-> NoInbox]]
    /\ statusSent = [c \in Clients |-> [i \in ServerIds |-> "none"]]
    /\ nextSession = 1
    /\ sessions = [i \in SessionIds |-> {}]
    /\ gone = {}
    /\ emitted = [i \in SessionIds |-> <<>>]
    /\ received = [c \in Sockets |-> <<>>]
    /\ dirs = {}
    /\ fileOp = NoFileOp
    /\ modListCache = [k \in CacheKeys |-> "none"]
    /\ portScan = NoScan
    /\ modDl = NoMods
    /\ req = EmptyBag
    /\ resp = NoResp
    /\ ops = 1
    /\ cmds = 0

ConsoleNext ==
    \/ \E c \in ChildIds, kind \in LineKinds : StdoutLine(c, kind)
    \/ \E c \in ChildIds : StderrLine(c)
    \/ \E s \in Existing : SendCommand(s)
    \/ \E s \in ServerIds : ApplyStatus(s)
    \/ \E c \in Clients, s \in Existing : handleSubscribe(c, s)
    \/ \E c \in Clients, s \in ServerIds : handleUnsubscribe(c, s)
    \/ \E c \in Clients : handleDisconnect(c)

ConsoleSpec == InitConsole /\ [][ConsoleNext]_vars

\* The file API of the stored servers.
FilesNext ==
    \/ \E s \in ServerIds, p \in RequestedPaths : listFiles(s, p)
    \/ \E s \in ServerIds, p \in RequestedPaths : readFile(s, p)
    \/ \E s \in ServerIds, p \in RequestedPaths : downloadFile(s, p)
    \/ \E s \in ServerIds, p \in RequestedPaths : writeFile(s, p)
    \/ \E s \in ServerIds, p \in RequestedPaths, n \in FileNames : uploadFile(s, p, n)
    \/ \E s \in ServerIds, p \in RequestedPaths : createDirectory(s, p)
    \/ \E s \in ServerIds, p \in RequestedPaths : deleteFile(s, p)

FilesSpec == InitLifecycle /\ [][FilesNext]_vars

\* Mod-list requests of the catalog.
CatalogNext ==
    \/ \E k \in CacheKeys : ModListBegin(k)
    \/ \E q \in InFlight : ModListDownload(q)
    \/ \E q \in InFlight : ModListDetails(q)
    \/ \E q \in InFlight : ModListCached(q)
    \/ \E q \in InFlight : ModListFail(q)
    \/ \E k \in CacheKeys : ModListExpire(k)

CatalogSpec == InitLifecycle /\ [][CatalogNext]_vars

\* Start and stop requests, the child's exit and the status updates a console
\* client causes. Every await resolves, the 30 s timer fires, a child exits
\* and an issued status update is written: weak fairness on those steps.
\* Requests and subscriptions arrive as the clients please.
StopNext ==
    \/ StartBegin
    \/ StopBegin
    \/ \E q \in InFlight : StartFind(q)
    \/ \E q \in InFlight : StartSetStarting(q)
    \/ \E q \in InFlight : StartPrepareFail(q)
    \/ \E q \in InFlight : StartSpawn(q)
    \/ \E q \in InFlight : StartSetContainer(q)
    \/ \E q \in InFlight : StartCatch(q)
    \/ \E q \in InFlight : StopFind(q)
    \/ \E q \in InFlight : StopSetStopping(q)
    \/ \E q \in InFlight : StopServer(q)
    \/ \E q \in InFlight : StopTimeout(q)
    \/ \E q \in InFlight : StopClearContainer(q)
    \/ \E c \in ChildIds, code \in ExitCodes : ChildExit(c, code)
    \/ \E s \in ServerIds : ApplyStatus(s)
    \/ \E c \in Clients, s \in Existing : handleSubscribe(c, s)

StopFairness ==
    /\ WF_vars(\E q \in InFlight : StartFind(q))
    /\ WF_vars(\E q \in InFlight : StartSetStarting(q))
    /\ WF_vars(\E q \in InFlight : StartPrepareFail(q) \/ StartSpawn(q))
    /\ WF_vars(\E q \in InFlight : StartSetContainer(q))
    /\ WF_vars(\E q \in InFlight : StartCatch(q))
    /\ WF_vars(\E q \in InFlight : StopFind(q))
    /\ WF_vars(\E q \in InFlight : StopSetStopping(q))
    /\ WF_vars(\E q \in InFlight : StopServer(q))
    /\ WF_vars(\E q \in InFlight : StopTimeout(q))
    /\ WF_vars(\E q \in InFlight : StopClearContainer(q))
    /\ WF_vars(\E c \in ChildIds, code \in ExitCodes : ChildExit(c, code))
    /\ WF_vars(\E s \in ServerIds : ApplyStatus(s))

StopSpec == InitLifecycle /\ [][StopNext]_vars /\ StopFairness

\* findAvailablePort on every requested port and every set of occupied ports.
PortInit ==
    /\ db = Stored(0)
    /\ nextId = 1
    /\ InitServices
    /\ InitPortScan
    /\ modDl = NoMods

PortNext == FindPort

PortSpec == PortInit /\ [][PortNext]_vars

\* downloadMods on manifests of every length, each download succeeding or failing.
ModsInit ==
    /\ db = Stored(0)
    /\ nextId = 1
    /\ InitServices
    /\ portScan = NoScan
    /\ InitMods

ModsNext ==
    \/ BatchStart
    \/ ModFetched
    \/ ModFetchFailed
    \/ ModWritten
    \/ ModWriteFailed
    \/ ModsReturn

ModsSpec == ModsInit /\ [][ModsNext]_vars

\* DELETE /servers/:id against a server that is being started or is running,
\* with a console client that makes the record follow the child.
DeleteNext ==
    \/ StartBegin
    \/ RemoveBegin
    \/ \E q \in InFlight : StartFind(q)
    \/ \E q \in InFlight : StartSetStarting(q)
    \/ \E q \in InFlight : StartPrepareFail(q)
    \/ \E q \in InFlight : StartSpawn(q)
    \/ \E q \in InFlight : StartSetContainer(q)
    \/ \E q \in InFlight : StartCatch(q)
    \/ \E q \in InFlight : RemoveFind(q)
    \/ \E q \in InFlight : StopFind(q)
    \/ \E q \in InFlight : StopSetStopping(q)
    \/ \E q \in InFlight : StopServer(q)
    \/ \E q \in InFlight : StopTimeout(q)
    \/ \E q \in InFlight : StopClearContainer(q)
    \/ \E q \in InFlight : RemoveTimeout(q)
    \/ \E q \in InFlight : RemoveDelete(q)
    \/ \E c \in ChildIds, kind \in LineKinds : StdoutLine(c, kind)
    \/ \E c \in ChildIds, code \in ExitCodes : ChildExit(c, code)
    \/ \E s \in ServerIds : ApplyStatus(s)
    \/ \E c \in Clients, s \in Existing : handleSubscribe(c, s)

DeleteSpec == InitLifecycle /\ [][DeleteNext]_vars

(* ------------------------------ properties ---------------------------- *)
\* The lifecycle state the supervisor last published for s (Stopped before any).
LifecycleState(s) == IF currentStatus[s] = "none" THEN "STOPPED" ELSE currentStatus[s]

\* Invocation q has just taken a step.
Stepped(q) == CopiesIn(q, req') < CopiesIn(q, req)

\* C1: at every reachable state, under every interleaving of create, update,
\* the provisioning insert and remove, no two server records share a name and
\* no two server records share a port.
C1_NameAndPortUnique ==
    \A i, j \in Existing :
        i # j => db[i].name # db[j].name /\ db[i].port # db[j].port

\* A create that passed both of its checks was refused by the table because
\* a concurrent create had inserted its name in between.
C1_Witness ==
    /\ resp.op = "create"
    /\ resp.result = "DbError"
    /\ FindByName(resp.name) # {}

\* C2: of two concurrent creates carrying one name, one succeeds and the other
\* is answered ConflictName: a create that is answered while a record already
\* holds its name (its port being free) is answered ConflictName.
C2_LoserGetsConflictName ==
    [][(resp'.op = "create" /\ FindByName(resp'.name) # {} /\ FindByPort(resp'.port) = {})
          => resp'.result = "ConflictName"]_vars

\* The server's child is alive and has logged its ready line.
ChildReady(s) ==
    /\ processes[s] # 0
    /\ children[processes[s]].state = "alive"
    /\ children[processes[s]].ready

\* C3: a start on a server whose child is alive and has logged its ready line
\* (no other handler being in flight) is answered AlreadyRunning and changes
\* nothing.
C3_StartOnRunningFails ==
    [][\A q \in InFlight :
          (q.op = "start" /\ q.pc = "find" /\ Stepped(q) /\ ChildReady(q.id)
             /\ BagCardinality(req) = 1)
             => /\ resp'.op = "start" /\ resp'.result = "AlreadyRunning"
                /\ UNCHANGED <<db, processes, children>>]_vars

\* The server has no live child and the state published last is Stopped.
IsStopped(s) ==
    /\ \A c \in ChildIds : children[c].server = s => children[c].state # "alive"
    /\ currentStatus[s] = "STOPPED"

\* C4: a stop on a server that has no live child and whose last lifecycle
\* state is Stopped (no other handler being in flight) is answered
\* AlreadyStopped and leaves the record unchanged.
C4_StopOnStoppedFails ==
    [][\A q \in InFlight :
          (q.op = "stop" /\ q.pc = "find" /\ Stepped(q) /\ IsStopped(q.id)
             /\ BagCardinality(req) = 1)
             => /\ resp'.op = "stop" /\ resp'.result = "AlreadyStopped"
                /\ UNCHANGED db]_vars

\* C5: once Running is published for a server, a log line never publishes
\* Starting for it.
C5_NoRegressionToStarting ==
    [][\A s \in ServerIds :
          (seq' # seq /\ currentStatus[s] = "RUNNING")
             => currentStatus'[s] # "STARTING"]_vars

\* Some child was killed by a signal in this step.
ExitedBySignal ==
    \E c \in ChildIds :
        children[c].state = "alive" /\ children'[c].state = "exited"
        /\ children'[c].code = "signal"

\* The edges of the lifecycle diagram.
Edge(from, to, signal) ==
    \/ from = "STOPPED" /\ to = "STARTING"
    \/ from = "STARTING" /\ to = "RUNNING"
    \/ from = "STARTING" /\ to = "ERROR"
    \/ from = "RUNNING" /\ to = "STOPPING"
    \/ from = "STOPPING" /\ to = "STOPPED"
    \/ from = "STOPPING" /\ to = "EXITED"
    \/ to = "EXITED" /\ signal

\* C6: every state change the supervisor publishes, taken with the state
\* published just before it, is an edge of the lifecycle diagram.
C6_PublishedChangesAreEdges ==
    [][\A s \in ServerIds :
          currentStatus'[s] # currentStatus[s]
             => Edge(LifecycleState(s), currentStatus'[s], ExitedBySignal)]_vars

\* C7: every published transition is mirrored into the registry record, with
\* or without a console client: once no handler is in flight and no
\* updateStatus call is outstanding, the record shows the last published state.
C7_PublishedStateIsMirrored ==
    \A s \in Existing :
        (currentStatus[s] # "none" /\ req = EmptyBag /\ pendingStatus[s] = <<>>)
           => db[s].status = statusMap(currentStatus[s])

\* C8: sendCommand writes to the child's stdin iff the lifecycle state is
\* Running; otherwise it fails NotRunning and touches neither stdin nor ring.
C8_CommandIffRunning ==
    [][resp'.op = "command"
          => /\ resp'.result = "written" <=> LifecycleState(resp'.id) = "RUNNING"
             /\ resp'.result = "NotRunning" => UNCHANGED <<children, logs>>]_vars

\* A stopServer invocation still waits on child c, so its timers can still fire.
StopWaiting(c) == \E q \in InFlight : q.pc = "wait" /\ q.child = c

\* C9: a child that does not exit after the terminate signal is sent the kill
\* signal 5 s later and ends Exited: while a child that was sent the terminate
\* signal is alive, a stopServer invocation still waits on it.
C9_KillFollowsTerminate ==
    \A c \in ChildIds :
        (children[c].termSent /\ children[c].state = "alive") => StopWaiting(c)

RECURSIVE Occurrences(_, _)
Occurrences(line, lines) ==
    IF lines = <<>> THEN 0
    ELSE (IF Head(lines) = line THEN 1 ELSE 0) + Occurrences(line, Tail(lines))

\* C10: what a client is sent on subscribing (one backlog snapshot) and after
\* it (live lines) holds every line that was in the ring at subscribe time
\* exactly once.
C10_BacklogThenLiveExactlyOnce ==
    \A c \in Clients, s \in ServerIds :
        inbox[c][s].subscribed =>
            \A k \in 1..Len(inbox[c][s].ringAtSub) :
                Occurrences(inbox[c][s].ringAtSub[k],
                            inbox[c][s].backlog \o inbox[c][s].live) = 1

\* A client subscribed to a full ring and was then sent a live line, which
\* evicted the oldest line of its backlog from the ring.
C10_Witness ==
    \E c \in Clients, s \in ServerIds :
        /\ inbox[c][s].subscribed
        /\ Len(inbox[c][s].ringAtSub) = MAX_LOG_LINES
        /\ inbox[c][s].live # <<>>
        /\ logs[s] # inbox[c][s].ringAtSub

\* C11: a client that subscribes to a server is sent the server's last
\* observed lifecycle state whenever one exists, be it the first subscriber or
\* a later one: a subscribed client has been sent, since it subscribed, the
\* state the supervisor stored last.
C11_SubscriberIsSentState ==
    \A c \in Clients, s \in ServerIds :
        (inbox[c][s].subscribed /\ currentStatus[s] # "none")
           => statusSent[c][s] = currentStatus[s]

\* C12: when a session emits complete(serverId), a record with that id
\* exists and its state is Stopped, whatever requests were made against the
\* record while the session ran.
C12_CompleteNamesStoppedRecord ==
    (resp.op = "provision" /\ resp.result = "complete")
       => db[resp.id] # NoServer /\ db[resp.id].status = "STOPPED"

\* C13: a session ends with complete iff no step before the mod downloads
\* failed and at least one mod was downloaded; a failed mod download alone
\* ends nothing, and a session without a downloaded mod ends with error.
C13_CompleteIffSomeModDownloaded ==
    [][\A q \in InFlight :
          (q.op = "provision" /\ Stepped(q) /\ resp'.op = "provision")
             => (resp'.result = "complete"
                   <=> (q.pc \in {"mods", "cleanup"} /\ q.downloadedMods >= 1))]_vars

\* The place of an event in the order of a session's events.
Rank(event) ==
    IF event \in {"complete", "error"} THEN Len(Milestones) + 1
    ELSE CHOOSE k \in 1..Len(Milestones) : Milestones[k] = event

\* The session was handed out and performServerCreation has returned.
SessionEnded(sessionId) ==
    /\ sessionId < nextSession
    /\ \A q \in InFlight : q.session # sessionId

\* C14: the events of a session follow the milestone order and are ended by
\* exactly one terminal event, after which nothing is emitted.
C14_MilestonesThenOneTerminal ==
    \A i \in SessionIds :
        LET e == emitted[i]
        IN /\ \A j, k \in 1..Len(e) : j < k => Rank(e[j]) <= Rank(e[k])
           /\ \A j \in 1..Len(e) : Rank(e[j]) > Len(Milestones) => j = Len(e)
           /\ SessionEnded(i) => e # <<>> /\ Rank(e[Len(e)]) > Len(Milestones)

C16_DeleteLeavesNoDirectory ==
    (resp.op = "remove" /\ resp.result = "removed" /\ req = EmptyBag)
       => db[resp.id] = NoServer /\ resp.id \notin dirs

\* The record of i was deleted: ids are handed out once, in order.
Deleted(i) == i < nextId /\ db[i] = NoServer

\* C17: once a delete has removed the record of a server, no child process
\* of that server is alive, whether it was spawned before the delete or by a
\* start that was still preparing when the delete ran.
C17_NoChildAfterDelete ==
    \A c \in ChildIds :
        children[c].state = "alive" => ~Deleted(children[c].server)

\* C19: every live child is the one stored in the supervisor's process map
\* under its server's id, so a server has at most one live child and no live
\* child is missing from the map.
C19_LiveChildIsTracked ==
    \A c \in ChildIds :
        children[c].state = "alive" => processes[children[c].server] = c

\* C20: a record whose state is Starting, Running or Stopping has a tracked
\* child in the supervisor's process map.
C20_ActiveRecordHasEntry ==
    \A i \in Existing :
        db[i].status \in {"STARTING", "RUNNING", "STOPPING"} => processes[i] # 0

\* The calls for key k that are downloading the archive or have downloaded it.
Resolving(k) ==
    {q \in InFlight : q.op = "modlist" /\ q.id = k /\ q.pc \in {"download", "details"}}

\* C18: calls for one key that found no fresh entry share one resolution:
\* at most one of them is downloading or has downloaded the archive.
C18_SingleFlightPerKey ==
    \A k \in CacheKeys : CopiesOf(Resolving(k), req) <= 1

\* C21: a subscribed console client is sent each live log line of the server
\* at most once, whatever subscribe, unsubscribe and disconnect events came
\* before.
C21_LiveLineAtMostOnce ==
    \A c \in Clients, s \in ServerIds :
        \A k \in 1..Len(inbox[c][s].live) :
            Occurrences(inbox[c][s].live[k], inbox[c][s].live) = 1

\* ServersService.stop has returned for s and s has no live child.
StopSettled(s) ==
    /\ s \in Existing
    /\ db[s].status = "STOPPING"
    /\ \A q \in InFlight : ~(q.op = "stop" /\ q.id = s)
    /\ \A c \in ChildIds : ~(children[c].server = s /\ children[c].state = "alive")

\* C22: no stop leaves a record in Stopping forever: once stop has returned
\* and the server has no live child, the record eventually leaves Stopping.
C22_StoppingEnds ==
    \A s \in ServerIds : StopSettled(s) ~> (s \notin Existing \/ db[s].status # "STOPPING")

\* C23: a session that ends with error leaves no record that it inserted:
\* either it had inserted none, or the record is gone when the error is
\* emitted.
C23_ErrorLeavesNoRecord ==
    (resp.op = "provision" /\ resp.result = "error")
       => resp.id = 0 \/ db[resp.id] = NoServer

\* C24: distinct server records have distinct storage directories.
C24_StorageDirectoriesDistinct ==
    \A i, j \in Existing : i # j => db[i].storagePath # db[j].storagePath

\* C25: the port findAvailablePort returns, which the new record stores, lies
\* in 1024..65535 for every requested port and every set of occupied ports in
\* that range.
C25_StoredPortInRange ==
    portScan.port # 0 => portScan.port \in MinPort..MaxPort

\* C26: findAvailablePort returns the smallest port at or above the requested
\* one that no existing record uses.
C26_SmallestFreePort ==
    portScan.port # 0 =>
        /\ portScan.port >= portScan.requestedPort
        /\ portScan.port \notin portScan.occupiedPorts
        /\ \A p \in portScan.requestedPort..(portScan.port - 1) :
              p \in portScan.occupiedPorts

\* With 25565..25570 occupied and 25565 requested, 25571 was returned.
C26_Witness ==
    /\ portScan.requestedPort = DefaultPort
    /\ (DefaultPort..(DefaultPort + 5)) \subseteq portScan.occupiedPorts
    /\ portScan.port = DefaultPort + 6

\* C28: within one downloadMods call at most 5 mod downloads are in flight at
\* any moment, whatever the length of the manifest and whichever downloads
\* fail.
C28_AtMostFiveInFlight ==
    modDl.fetching + modDl.writing <= batchSize

\* The second batch of a manifest is in flight in full, after a first batch
\* in which some downloads succeeded and some failed.
C28_Witness ==
    /\ modDl.started = 2 * batchSize
    /\ modDl.fetching + modDl.writing = batchSize
    /\ modDl.downloadedMods >= 1
    /\ modDl.failedMods >= 1

\* Server s is the only one that has logged: every line so far went to it.
OnlyLogger(s) == \A i \in ServerIds \ {s} : logs[i] = <<>>

\* C27: a server's log ring never holds more than MAX_LOG_LINES lines, and
\* it holds the most recently appended lines in arrival order (the oldest
\* line is the one evicted on overflow): for the server all seq lines went
\* to, the ring is the last Min(seq, MAX_LOG_LINES) of the lines 1..seq.
C27_RingHoldsMostRecentLines ==
    \A s \in ServerIds :
        /\ Len(logs[s]) <= MAX_LOG_LINES
        /\ OnlyLogger(s) =>
              LET n == Min(seq, MAX_LOG_LINES)
              IN logs[s] = [k \in 1..n |-> seq - n + k]

\* The ring is full and its oldest line was evicted by an append.
C27_Witness ==
    \E s \in ServerIds :
        /\ Len(logs[s]) = MAX_LOG_LINES
        /\ seq > MAX_LOG_LINES
        /\ logs[s][1] = seq - MAX_LOG_LINES + 1

\* The supervisor publishes a state of s in this step: its status callbacks
\* issue status updates, and the step is not a subscription's replay.
Publishes(s) ==
    /\ Len(pendingStatus'[s]) > Len(pendingStatus[s])
    /\ serverSubscriptions' = serverSubscriptions

\* C29: a state is published to the state subscribers only on change: the
\* state published for a server differs from the one stored before.
C29_PublishedOnlyOnChange ==
    [][\A s \in ServerIds :
          Publishes(s) => pendingStatus'[s][Len(pendingStatus'[s])] # currentStatus[s]]_vars

\* Socket c is sent an event in this step.
Receives(c) == Len(received'[c]) > Len(received[c])

====
